---- MODULE Spec2Model ----
(***************************************************************************)
(* dhuh: declarative survey builder (forms/groups revision,                *)
(* src/unnamed/part_001 lines 428-1059).                                   *)
(*                                                                         *)
(* The model follows one process: main() loads the survey (NewSurvey),     *)
(* runs it form by form (Survey.Run), optionally prints the summary and    *)
(* asks for confirmation, then serializes the answers (Survey.Answers)     *)
(* and writes them.  The prompt library (huh) is the environment: a        *)
(* session returns values that pass the validators the program supplied,   *)
(* or an error.                                                            *)
(***************************************************************************)
EXTENDS Integers, Sequences, FiniteSets, TLC

VARIABLES
    doc,        \* the Survey as unmarshalled from the schema file (immutable)
    file,       \* the file at doc.Output: NoFile or its decoded content
    pc,         \* position of main()
    formIdx,    \* index of the form Run is working on
    answers,    \* Survey.answers (map[string]interface{})
    loaded,     \* what readAnswers returned to NewSurvey (history)
    refs,       \* Field.ref of every field: the huh widget, or NoRef
    built,      \* per field, what its constructor computed (history)
    presented,  \* positions of the fields shown in a prompt session (history)
    sessions,   \* the form.Run() calls Run made for the forms, in order (history)
    stdout,     \* what main wrote to standard output, in order
    writes,     \* number of os.WriteFile calls on doc.Output
    confirmed,  \* the operator's answer to the confirmation (history)
    failure,    \* the error or panic the run met, "" while it met none (history)
    run,        \* "first": no answer file when the process started; "resumed":
                \* the file is what a first run wrote with every default
                \* accepted; "other" (history)
    exit        \* process exit status, "running" while main has not returned

vars == <<doc, file, pc, formIdx, answers, loaded, refs, built, presented,
          sessions, stdout, writes, confirmed, failure, run, exit>>

----------------------------------------------------------------------------
(* Dynamically typed values (Go interface{}).                              *)
(*   str  : string            bool : bool                                  *)
(*   strs : []string  (what a huh multiselect returns)                     *)
(*   seq  : []interface{} (what yaml/json Unmarshal yields for a sequence) *)
(*   nil  : nil (a note's GetValue, a null in a file, an absent default)   *)

Str(s)  == [t |-> "str",  s |-> s,  b |-> FALSE, q |-> <<>>]
Bool(b) == [t |-> "bool", s |-> "", b |-> b,     q |-> <<>>]
Strs(q) == [t |-> "strs", s |-> "", b |-> FALSE, q |-> q]
SeqV(q) == [t |-> "seq",  s |-> "", b |-> FALSE, q |-> q]
Nil     == [t |-> "nil",  s |-> "", b |-> FALSE, q |-> <<>>]

Range(q) == {q[i] : i \in 1..Len(q)}

EmptyMap == [k \in {} |-> Nil]

\* m[k] = v for a Go map held as a function over its present keys
MapSet(m, k, v) == [x \in (DOMAIN m) \cup {k} |-> IF x = k THEN v ELSE m[x]]

\* m[k] of a Go map: the zero interface (nil) when the key is absent
MapGet(m, k) == IF k \in DOMAIN m THEN m[k] ELSE Nil

----------------------------------------------------------------------------
(* Strings are atomic here, so the conversions the program applies to      *)
(* strings are given on the strings of the model:                          *)
(* "x&y" is the one typed string with a character html/template escapes;   *)
(* every other string of the model is free of such characters.             *)

MaxEsc == 3

RECURSIVE Rep(_, _)
Rep(s, n) == IF n = 0 THEN "" ELSE s \o Rep(s, n - 1)

\* "x&y" after n passes of the HTML escaper: x&y, x&amp;y, x&amp;amp;y, ...
Amp(n) == "x&" \o Rep("amp;", n) \o "y"

\* html/template escapes the output of every {{...}} action: & becomes &amp;
HTMLEscape(s) ==
    IF \E n \in 0..MaxEsc : s = Amp(n)
    THEN Amp((CHOOSE n \in 0..MaxEsc : s = Amp(n)) + 1)
    ELSE s

RECURSIVE Join(_)
Join(q) == IF Len(q) = 0 THEN ""
           ELSE IF Len(q) = 1 THEN q[1]
           ELSE q[1] \o " " \o Join(Tail(q))

\* fmt.Sprint of a value, as html/template prints a pipeline's result; a nil
\* (a missing map key included) is skipped and prints nothing
Sprint(v) ==
    CASE v.t = "str"  -> v.s
      [] v.t = "bool" -> IF v.b THEN "true" ELSE "false"
      [] v.t = "strs" -> "[" \o Join(v.q) \o "]"
      [] v.t = "seq"  -> "[" \o Join(v.q) \o "]"
      [] OTHER        -> ""

Keys == {"k1", "k2"}

\* the template text {{.k}}: index the data map by k
TemplateRef(k) == "{{." \o k \o "}}"

\* a template text that template.Parse rejects
Malformed == "{{"

\* Survey.ParseTemplate(value, key), executed on the map data = s.answers;
\* [err, out]
\* a parse that accepts every text and returns a malformed one unexpanded
ParseTemplateLenient(value, data) ==
    IF \E k \in Keys : value = TemplateRef(k)
    THEN LET k == CHOOSE k \in Keys : value = TemplateRef(k)
         IN  [err |-> FALSE, out |-> HTMLEscape(Sprint(MapGet(data, k)))]
    ELSE [err |-> FALSE, out |-> value]

ParseTemplate(value, data) ==
    IF value = "" THEN [err |-> FALSE, out |-> value]
    ELSE IF value = Malformed THEN [err |-> TRUE, out |-> ""]
    ELSE IF \E k \in Keys : value = TemplateRef(k)
         THEN LET k == CHOOSE k \in Keys : value = TemplateRef(k)
              IN  [err |-> FALSE, out |-> HTMLEscape(Sprint(MapGet(data, k)))]
         ELSE [err |-> FALSE, out |-> value]

----------------------------------------------------------------------------
(* Schema: Field, SelectOption, Group, Form, Survey.                       *)

Opt(k, v, sel) == [Key |-> k, Value |-> v, Selected |-> sel]

Fld(key, type, req, def, opts) ==
    [Key |-> key, Type |-> type, Required |-> req, Default |-> def,
     Options |-> opts]

SupportedTypes == {"note", "input", "text", "select", "multiselect", "confirm"}

----------------------------------------------------------------------------
(* Widgets (huh.Field): the kind, the value bound with Value(&value), and  *)
(* the options handed to Options(...).                                     *)

Widget(kind, value, options) ==
    [set |-> TRUE, kind |-> kind, value |-> value, options |-> options]

NoRef == [set |-> FALSE, kind |-> "", value |-> Nil, options |-> <<>>]

\* huh.Field.GetValue(): the bound value; nil for a note
GetValue(w) == w.value

\* what a field constructor yields: the widget, or a panic; tmpl is the
\* result of the template expansion it made ("-" when it made none)
Made(w, tmpl) == [panic |-> FALSE, w |-> w, tmpl |-> tmpl]
Panicked      == [panic |-> TRUE, w |-> NoRef, tmpl |-> "-"]

\* a note constructor that does not store the widget in f.ref
NewNoteFieldNoRef(f, ans) == Made(NoRef, "-")

NewNoteField(f, ans) == Made(Widget("note", Nil, <<>>), "-")

\* a validator that accepts everything
InputValidateOff(f, s) == TRUE

\* the validators handed to Validate(...)
InputValidate(f, s) == ~(f.Required /\ s = "")

\* len(s) <= 0 on a string
SelectValidate(f, s) == ~(f.Required /\ s = "")

MultiSelectValidate(f, t) == ~(f.Required /\ Len(t) <= 0)

\* the resume step of NewInputField and NewTextField (lines 602-606)
ResumeString(f, ans, value) ==
    IF MapGet(ans, f.Key).t = "str" THEN MapGet(ans, f.Key).s ELSE value

NewInputField(f, ans) ==
    IF f.Default.t = "str"
    THEN LET r == ParseTemplate(f.Default.s, ans)
         IN  IF r.err THEN Panicked
             ELSE Made(Widget("input", Str(ResumeString(f, ans, r.out)), <<>>),
                       r.out)
    ELSE Made(Widget("input", Str(ResumeString(f, ans, "")), <<>>), "-")

NewTextField(f, ans) ==
    IF f.Default.t = "str"
    THEN LET r == ParseTemplate(f.Default.s, ans)
         IN  IF r.err THEN Panicked
             ELSE Made(Widget("text", Str(ResumeString(f, ans, r.out)), <<>>),
                       r.out)
    ELSE Made(Widget("text", Str(ResumeString(f, ans, "")), <<>>), "-")

\* the options loop without the value = value[:0] of lines 671 and 721
RECURSIVE OptionsLoopKeepValue(_, _, _, _, _)
OptionsLoopKeepValue(f, ans, i, st, empty) ==
    IF i > Len(f.Options) THEN st
    ELSE LET o   == f.Options[i]
             k   == IF o.Key = "" THEN o.Value ELSE o.Key
             a   == MapGet(ans, f.Key)
             hit == a.t = "seq" /\ \E n \in 1..Len(a.q) : a.q[n] = o.Value
         IN  OptionsLoopKeepValue(f, ans, i + 1,
                [value   |-> st.value,
                 options |-> Append(st.options, Opt(k, o.Value, o.Selected \/ hit))],
                empty)

\* the options loop shared in shape by NewSelectField and NewMultiSelectField:
\* st = [value, options] after the first i-1 options; empty is value[:0]
RECURSIVE OptionsLoop(_, _, _, _, _)
OptionsLoop(f, ans, i, st, empty) ==
    IF i > Len(f.Options) THEN st
    ELSE LET o   == f.Options[i]
             k   == IF o.Key = "" THEN o.Value ELSE o.Key
             a   == MapGet(ans, f.Key)
             hit == a.t = "seq" /\ \E n \in 1..Len(a.q) : a.q[n] = o.Value
             sel == o.Selected \/ hit
         IN  OptionsLoop(f, ans, i + 1,
                [value   |-> IF a.t = "seq" THEN empty ELSE st.value,
                 options |-> Append(st.options, Opt(k, o.Value, sel))],
                empty)

NewSelectField(f, ans) ==
    LET value == IF f.Default.t = "str" THEN f.Default.s ELSE ""
        st    == OptionsLoop(f, ans, 1, [value |-> Str(value), options |-> <<>>],
                             Str(""))
    IN  Made(Widget("select", st.value, st.options), "-")

NewMultiSelectField(f, ans) ==
    LET value == IF f.Default.t = "seq" THEN f.Default.q ELSE <<>>
        st    == OptionsLoop(f, ans, 1, [value |-> Strs(value), options |-> <<>>],
                             Strs(<<>>))
    IN  Made(Widget("multiselect", st.value, st.options), "-")

NewConfirmField(f, ans) ==
    LET value == IF f.Default.t = "bool" THEN f.Default.b ELSE FALSE
        a     == MapGet(ans, f.Key)
    IN  Made(Widget("confirm", Bool(IF a.t = "bool" THEN a.b ELSE value), <<>>),
             "-")

----------------------------------------------------------------------------
(* Document order.  A position is <<form, group, field>>.                  *)

FieldAt(d, p) == d.Forms[p[1]].Groups[p[2]].Fields[p[3]]

GroupPositions(d, i, g) ==
    [x \in 1..Len(d.Forms[i].Groups[g].Fields) |-> <<i, g, x>>]

RECURSIVE FormPositionsFrom(_, _, _)
FormPositionsFrom(d, i, g) ==
    IF g > Len(d.Forms[i].Groups) THEN <<>>
    ELSE GroupPositions(d, i, g) \o FormPositionsFrom(d, i, g + 1)

\* the fields of form i in the order Run's loops visit them
FormPositions(d, i) == FormPositionsFrom(d, i, 1)

RECURSIVE DocPositionsFrom(_, _)
DocPositionsFrom(d, i) ==
    IF i > Len(d.Forms) THEN <<>>
    ELSE FormPositions(d, i) \o DocPositionsFrom(d, i + 1)

\* every field of the document, in document order
DocPositions(d) == DocPositionsFrom(d, 1)

\* the positions of the fields of the document
PosSet(d) ==
    UNION { UNION { { <<i, g, x>> : x \in 1..Len(d.Forms[i].Groups[g].Fields) } :
                    g \in 1..Len(d.Forms[i].Groups) } :
            i \in 1..Len(d.Forms) }

\* p comes before q in document order
Before(p, q) ==
    \/ p[1] < q[1]
    \/ p[1] = q[1] /\ p[2] < q[2]
    \/ p[1] = q[1] /\ p[2] = q[2] /\ p[3] < q[3]

IsValueField(f) == f.Type # "note"

\* the non-note fields of the first group of form i only
ValueFieldsFirstGroup(d, i) ==
    SelectSeq(FormPositions(d, i),
              LAMBDA p : IsValueField(FieldAt(d, p)) /\ p[2] = 1)

\* Form.ValueFields / Group.ValueFields: the non-note fields of form i
ValueFields(d, i) ==
    SelectSeq(FormPositions(d, i), LAMBDA p : IsValueField(FieldAt(d, p)))

----------------------------------------------------------------------------
(* Paths.  fileType looks at the suffix of the path; the paths of the      *)
(* model are listed by suffix.                                             *)

YamlPaths == {"survey.yaml", "survey.yml", "answers.yaml", "answers.yml",
              "missing.yaml"}
JsonPaths == {"survey.json", "answers.json", "broken.json"}

fileType(path) ==
    IF path \in YamlPaths THEN "yaml"
    ELSE IF path \in JsonPaths THEN "json"
    ELSE ""

ToStdout(d) == d.Output = "" \/ d.Output = "-"

\* schema paths at which there is no file, and at which the file's bytes are
\* not a document of the path's format
MissingPaths == {"missing.yaml"}
BrokenPaths  == {"broken.json"}

\* the switch on fileType(s.path) without its default case
ReadSchemaAnyExtension(path) ==
    IF path \in MissingPaths THEN "read"
    ELSE IF path \in BrokenPaths THEN "unmarshal"
    ELSE ""

\* NewSurvey, lines 830-850: reading and unmarshalling the schema file; the
\* error met ("" when there is none)
ReadSchema(path) ==
    IF path \in MissingPaths THEN "read"
    ELSE IF fileType(path) = "" THEN "extension"
    ELSE IF path \in BrokenPaths THEN "unmarshal"
    ELSE ""

----------------------------------------------------------------------------
(* Files.  A file is NoFile, Garbage (bytes neither codec parses), or the  *)
(* document a codec wrote: its format and, per key, a node                 *)
(* (str, bool, list, null).                                                *)

NoFile  == [kind |-> "none",    fmt |-> "", data |-> EmptyMap]
NoDir   == [kind |-> "nodir",   fmt |-> "", data |-> EmptyMap]
Garbage == [kind |-> "garbage", fmt |-> "", data |-> EmptyMap]
Bytes(fmt, data) == [kind |-> "doc", fmt |-> fmt, data |-> data]

NodeStr(s)  == [t |-> "str",  s |-> s,  b |-> FALSE, q |-> <<>>]
NodeBool(b) == [t |-> "bool", s |-> "", b |-> b,     q |-> <<>>]
NodeList(q) == [t |-> "list", s |-> "", b |-> FALSE, q |-> q]
NodeNull    == [t |-> "null", s |-> "", b |-> FALSE, q |-> <<>>]

\* yaml.Marshal / json.Marshal of one value of the answer map
EncodeValue(v) ==
    CASE v.t = "str"  -> NodeStr(v.s)
      [] v.t = "bool" -> NodeBool(v.b)
      [] v.t = "strs" -> NodeList(v.q)
      [] v.t = "seq"  -> NodeList(v.q)
      [] OTHER        -> NodeNull

\* os.Stat(path) found something at the path
Exists(f) == f.kind \notin {"none", "nodir"}

\* a decoder that reads a boolean scalar as the string it is written with
DecodeNodeUntyped(n) ==
    CASE n.t = "str"  -> Str(n.s)
      [] n.t = "bool" -> Str(IF n.b THEN "true" ELSE "false")
      [] n.t = "list" -> SeqV(n.q)
      [] OTHER        -> Nil

\* yaml.Unmarshal / json.Unmarshal of one node into interface{}
DecodeNode(n) ==
    CASE n.t = "str"  -> Str(n.s)
      [] n.t = "bool" -> Bool(n.b)
      [] n.t = "list" -> SeqV(n.q)
      [] OTHER        -> Nil

Marshal(fmt, o) == Bytes(fmt, [k \in DOMAIN o |-> EncodeValue(o[k])])

Unmarshal(b) == [k \in DOMAIN b.data |-> DecodeNode(b.data[k])]

\* readAnswers without the os.Stat test: os.ReadFile fails on a missing file
readAnswersNoStat(path, f) ==
    IF ~Exists(f) THEN [err |-> TRUE, o |-> EmptyMap]
    ELSE IF fileType(path) = "" THEN [err |-> TRUE, o |-> EmptyMap]
    ELSE IF f.kind = "garbage" THEN [err |-> TRUE, o |-> EmptyMap]
    ELSE [err |-> FALSE, o |-> Unmarshal(f)]

\* readAnswers with the extension tested before the file is looked for
readAnswersExtensionFirst(path, f) ==
    IF fileType(path) = "" THEN [err |-> TRUE, o |-> EmptyMap]
    ELSE IF ~Exists(f) THEN [err |-> FALSE, o |-> EmptyMap]
    ELSE IF f.kind = "garbage" THEN [err |-> TRUE, o |-> EmptyMap]
    ELSE [err |-> FALSE, o |-> Unmarshal(f)]

\* readAnswers(path) on the file f found at path: [err, o]
readAnswers(path, f) ==
    IF ~Exists(f) THEN [err |-> FALSE, o |-> EmptyMap]
    ELSE IF fileType(path) = "" THEN [err |-> TRUE, o |-> EmptyMap]
    ELSE IF f.kind = "garbage" THEN [err |-> TRUE, o |-> EmptyMap]
    ELSE [err |-> FALSE, o |-> Unmarshal(f)]

----------------------------------------------------------------------------
(* Survey.Run, one form at a time.                                         *)

\* the switch with a default case that shows the unknown field as a note
TypeSwitchDefaultNote(f, ans) ==
    LET m == CASE f.Type = "input"       -> NewInputField(f, ans)
               [] f.Type = "text"        -> NewTextField(f, ans)
               [] f.Type = "select"      -> NewSelectField(f, ans)
               [] f.Type = "multiselect" -> NewMultiSelectField(f, ans)
               [] f.Type = "confirm"     -> NewConfirmField(f, ans)
               [] OTHER                  -> NewNoteField(f, ans)
    IN  [err |-> FALSE, panic |-> m.panic, w |-> m.w, tmpl |-> m.tmpl]

\* the switch on field.Type in Run (lines 543-558): the constructor's result,
\* or the unsupported-type error
TypeSwitch(f, ans) ==
    LET m == CASE f.Type = "note"        -> NewNoteField(f, ans)
               [] f.Type = "input"       -> NewInputField(f, ans)
               [] f.Type = "text"        -> NewTextField(f, ans)
               [] f.Type = "select"      -> NewSelectField(f, ans)
               [] f.Type = "multiselect" -> NewMultiSelectField(f, ans)
               [] f.Type = "confirm"     -> NewConfirmField(f, ans)
               [] OTHER                  -> Panicked
    IN  [err |-> f.Type \notin SupportedTypes, panic |-> m.panic,
         w |-> m.w, tmpl |-> m.tmpl]

\* the index in ps of the first field whose construction fails, 0 if none
FirstFailure(d, ps, ans) ==
    LET bad == {n \in 1..Len(ps) :
                   LET m == TypeSwitch(FieldAt(d, ps[n]), ans)
                   IN  m.err \/ m.panic}
    IN  IF bad = {} THEN 0 ELSE CHOOSE n \in bad : \A k \in bad : n <= k

\* the storing loop stopping one field early
RECURSIVE StoreAnswersShort(_, _, _, _, _)
StoreAnswersShort(ans, d, vs, r, n) ==
    IF n >= Len(vs) THEN ans
    ELSE StoreAnswersShort(MapSet(ans, FieldAt(d, vs[n]).Key, GetValue(r[vs[n]])),
                           d, vs, r, n + 1)

\* f.ValueFields() loop of Run (lines 573-577): s.answers[field.Key] =
\* field.ref.GetValue() for the non-note fields vs, in order, from index n
RECURSIVE StoreAnswers(_, _, _, _, _)
StoreAnswers(ans, d, vs, r, n) ==
    IF n > Len(vs) THEN ans
    ELSE StoreAnswers(MapSet(ans, FieldAt(d, vs[n]).Key, GetValue(r[vs[n]])),
                      d, vs, r, n + 1)

\* the string the operator types into an input or text field instead of
\* accepting what is shown
Typed == {"x&y"}

RECURSIVE SubSeqAt(_, _, _)
SubSeqAt(q, S, n) ==
    IF n > Len(q) THEN <<>>
    ELSE (IF n \in S THEN <<q[n]>> ELSE <<>>) \o SubSeqAt(q, S, n + 1)

\* the values a session can leave in widget w of field f: what the operator
\* may enter there and the field's validator accepts
Choices(f, w) ==
    CASE w.kind = "input" ->
            {Str(s) : s \in {x \in {w.value.s} \cup Typed : InputValidate(f, x)}}
      [] w.kind = "text" ->
            {Str(s) : s \in {x \in {w.value.s} \cup Typed : InputValidate(f, x)}}
      [] w.kind = "select" ->
            {Str(s) : s \in {x \in {w.value.s}
                                   \cup {w.options[n].Value : n \in 1..Len(w.options)} :
                               SelectValidate(f, x)}}
      [] w.kind = "multiselect" ->
            {Strs(t) : t \in {x \in {SubSeqAt([n \in 1..Len(w.options) |->
                                                  w.options[n].Value], S, 1) :
                                      S \in SUBSET (1..Len(w.options))} :
                                 MultiSelectValidate(f, x)}}
      [] w.kind = "confirm" -> {Bool(TRUE), Bool(FALSE)}
      [] OTHER -> {Nil}

\* the outcomes of one prompt session over the fields ps[1..n]: one value per
\* field
RECURSIVE Outcomes(_, _, _, _)
Outcomes(d, r, ps, n) ==
    IF n = 0 THEN {EmptyMap}
    ELSE {MapSet(a, ps[n], v) :
            a \in Outcomes(d, r, ps, n - 1),
            v \in Choices(FieldAt(d, ps[n]), r[ps[n]])}

Exited(code) == /\ pc' = "exited"
                /\ exit' = code

\* log.Fatal(err) in main, or a panic: the failure and the exit status
Failed(kind, code) == /\ Exited(code)
                      /\ failure' = kind

\* Run returned nil, or goes on with the next form
AfterForm(i) == IF i >= Len(doc.Forms) THEN "summary" ELSE "build"

\* main, lines 1006-1009: NewSurvey(path) (lines 824-864)
Start ==
    /\ pc = "start"
    /\ IF ReadSchema(doc.path) # ""
       THEN /\ Failed(ReadSchema(doc.path), "1")
            /\ UNCHANGED <<answers, loaded>>
       ELSE IF ToStdout(doc)
       THEN /\ pc' = "intro"
            /\ UNCHANGED <<answers, loaded, failure, exit>>
       ELSE LET a == readAnswers(doc.Output, file)
            IN  IF a.err
                THEN /\ Failed("answers", "1")
                     /\ UNCHANGED <<answers, loaded>>
                ELSE /\ answers' = a.o
                     /\ loaded' = a.o
                     /\ pc' = "intro"
                     /\ UNCHANGED <<failure, exit>>
    /\ UNCHANGED <<doc, run, file, formIdx, refs, built, presented, sessions, stdout,
                   writes, confirmed>>

\* Run, lines 523-534: the header note's session; it returns nil or an error
Intro ==
    /\ pc = "intro"
    /\ \E err \in BOOLEAN :
         IF err THEN Failed("session", "1") /\ UNCHANGED formIdx
         ELSE /\ pc' = AfterForm(0)
              /\ formIdx' = 1
              /\ UNCHANGED <<failure, exit>>
    /\ UNCHANGED <<doc, run, file, answers, loaded, refs, built, presented, sessions,
                   stdout, writes, confirmed>>

\* the groups of form i that Run hands to huh.NewForm (lines 561-563): those
\* with at least one field, notes included
HuhGroups(d, i) ==
    SelectSeq([g \in 1..Len(d.Forms[i].Groups) |-> g],
              LAMBDA g : Len(d.Forms[i].Groups[g].Fields) > 0)

\* Run, lines 536-566: build the widgets of form formIdx
BuildForm ==
    /\ pc = "build"
    /\ LET ps   == FormPositions(doc, formIdx)
           bad  == FirstFailure(doc, ps, answers)
           done == IF bad = 0 THEN Range(ps) ELSE {ps[n] : n \in 1..(bad - 1)}
           m(p) == TypeSwitch(FieldAt(doc, p), answers)
       IN  /\ refs' = [p \in DOMAIN refs |-> IF p \in done THEN m(p).w ELSE refs[p]]
           /\ built' = [p \in DOMAIN built |->
                          IF p \in done
                          THEN [made |-> TRUE, shown |-> m(p).w, tmpl |-> m(p).tmpl,
                                seen |-> answers]
                          ELSE built[p]]
           /\ IF bad # 0
              THEN /\ IF m(ps[bad]).err THEN Failed("type", "1")
                      ELSE Failed("template", "2")
                   /\ UNCHANGED formIdx
              ELSE IF Len(HuhGroups(doc, formIdx)) > 0
              THEN /\ pc' = "session"
                   /\ UNCHANGED <<formIdx, failure, exit>>
              ELSE /\ pc' = AfterForm(formIdx)
                   /\ formIdx' = formIdx + 1
                   /\ UNCHANGED <<failure, exit>>
    /\ UNCHANGED <<doc, run, file, answers, loaded, presented, sessions, stdout,
                   writes, confirmed>>

\* Run, lines 568-577: the form's session, then the answers are stored
Session ==
    /\ pc = "session"
    /\ LET ps == FormPositions(doc, formIdx)
       IN  /\ presented' = presented \cup Range(ps)
           /\ sessions' = Append(sessions, [form   |-> formIdx,
                                            groups |-> HuhGroups(doc, formIdx)])
           /\ \/ /\ Failed("session", "1")
                 /\ UNCHANGED <<formIdx, refs, answers>>
              \/ \E o \in Outcomes(doc, refs, ps, Len(ps)) :
                   /\ refs' = [p \in DOMAIN refs |->
                                 IF p \in DOMAIN o
                                 THEN [refs[p] EXCEPT !.value = o[p]]
                                 ELSE refs[p]]
                   /\ answers' = StoreAnswers(answers, doc,
                                              ValueFields(doc, formIdx), refs', 1)
                   /\ pc' = AfterForm(formIdx)
                   /\ formIdx' = formIdx + 1
                   /\ UNCHANGED <<failure, exit>>
    /\ UNCHANGED <<doc, run, file, loaded, built, stdout, writes, confirmed>>

----------------------------------------------------------------------------
(* main after Run: summary, confirmation, Answers and the write.           *)

Out(kind, bytes) == [kind |-> kind, bytes |-> bytes]

\* Answers, lines 790-798: o[field.Key] = field.ref.GetValue() over every
\* field of every group of every form, from index n of ps
RECURSIVE AnswerMap(_, _, _, _, _)
AnswerMap(o, d, ps, r, n) ==
    IF n > Len(ps) THEN o
    ELSE AnswerMap(MapSet(o, FieldAt(d, ps[n]).Key, GetValue(r[ps[n]])),
                   d, ps, r, n + 1)

\* Answers() with the format always taken from the schema file's path
AnswersSchemaFormat(d, r) ==
    IF \E p \in PosSet(d) : ~r[p].set
    THEN [panic |-> TRUE, err |-> FALSE, bytes |-> NoFile]
    ELSE IF fileType(d.path) = ""
    THEN [panic |-> FALSE, err |-> TRUE, bytes |-> NoFile]
    ELSE [panic |-> FALSE, err |-> FALSE,
          bytes |-> Marshal(fileType(d.path),
                            AnswerMap(EmptyMap, d, DocPositions(d), r, 1))]

\* Survey.Answers(): [panic, err, bytes]
Answers(d, r) ==
    LET path == IF ToStdout(d) THEN d.path ELSE d.Output
    IN  IF \E p \in PosSet(d) : ~r[p].set
        THEN [panic |-> TRUE, err |-> FALSE, bytes |-> NoFile]
        ELSE IF fileType(path) = ""
        THEN [panic |-> FALSE, err |-> TRUE, bytes |-> NoFile]
        ELSE [panic |-> FALSE, err |-> FALSE,
              bytes |-> Marshal(fileType(path),
                                AnswerMap(EmptyMap, d, DocPositions(d), r, 1))]

\* main, lines 1024-1025: is the confirmation asked
ConfirmConfigured(d) == d.Confirm # ""

\* main, lines 1015-1022: the summary of every group, when configured
Summarize ==
    /\ pc = "summary"
    /\ stdout' = IF doc.Summary THEN Append(stdout, Out("summary", NoFile))
                 ELSE stdout
    /\ pc' = IF ConfirmConfigured(doc) THEN "confirm" ELSE "answers"
    /\ UNCHANGED <<doc, run, file, formIdx, answers, loaded, refs, built, presented,
                   sessions, writes, confirmed, failure, exit>>

\* main going on to Answers() whatever the operator answered
AfterConfirmIgnored(ok) == "answers"

\* main, lines 1039-1041: where main goes once the confirmation returned ok
AfterConfirm(ok) == IF ok THEN "answers" ELSE "exited"

\* main, lines 1026-1042: the confirmation's session
ConfirmPrompt ==
    /\ pc = "confirm"
    /\ \/ Failed("session", "1") /\ UNCHANGED confirmed
       \/ \E ok \in BOOLEAN :
            /\ confirmed' = IF ok THEN "yes" ELSE "no"
            /\ pc' = AfterConfirm(ok)
            /\ exit' = IF pc' = "exited" THEN "0" ELSE exit
            /\ UNCHANGED failure
    /\ UNCHANGED <<doc, run, file, formIdx, answers, loaded, refs, built, presented,
                   sessions, stdout, writes>>

\* os.WriteFile(s.Output, a, 0644) on the file f at the path (lines
\* 1053-1056): [err, f]; it cannot create the file in a directory that does
\* not exist
WriteFile(f, a) ==
    IF f.kind = "nodir" THEN [err |-> TRUE, f |-> f]
    ELSE [err |-> FALSE, f |-> a]

\* main without the test of line 1049: the bytes always go to os.WriteFile
SerializeToFile ==
    /\ pc = "answers"
    /\ LET a == Answers(doc, refs)
       IN  IF a.panic \/ a.err
           THEN /\ IF a.panic THEN Failed("answers-panic", "2")
                   ELSE Failed("serialize", "1")
                /\ UNCHANGED <<file, writes>>
           ELSE /\ writes' = writes + 1
                /\ file' = a.bytes
                /\ Exited("0")
                /\ UNCHANGED failure
    /\ UNCHANGED <<doc, run, formIdx, answers, loaded, refs, built, presented,
                   sessions, confirmed, stdout>>

\* main calling os.WriteFile with what Answers() returned before it looks at
\* the error
SerializeWriteFirst ==
    /\ pc = "answers"
    /\ LET a == Answers(doc, refs)
       IN  IF a.panic
           THEN /\ Failed("answers-panic", "2")
                /\ UNCHANGED <<file, stdout, writes>>
           ELSE IF ToStdout(doc)
           THEN /\ stdout' = Append(stdout, Out("answers", a.bytes))
                /\ IF a.err THEN Failed("serialize", "1")
                   ELSE Exited("0") /\ UNCHANGED failure
                /\ UNCHANGED <<file, writes>>
           ELSE /\ writes' = writes + 1
                /\ file' = IF a.err THEN Garbage ELSE a.bytes
                /\ IF a.err THEN Failed("serialize", "1")
                   ELSE Exited("0") /\ UNCHANGED failure
                /\ UNCHANGED stdout
    /\ UNCHANGED <<doc, run, formIdx, answers, loaded, refs, built, presented,
                   sessions, confirmed>>

\* main, lines 1044-1058: Answers(), then the bytes go to stdout or the file;
\* os.Stdout.Write's result is dropped (line 1050), os.WriteFile's is checked
Serialize ==
    /\ pc = "answers"
    /\ LET a == Answers(doc, refs)
       IN  IF a.panic \/ a.err
           THEN /\ IF a.panic THEN Failed("answers-panic", "2")
                   ELSE Failed("serialize", "1")
                /\ UNCHANGED <<file, stdout, writes>>
           ELSE IF ToStdout(doc)
           THEN /\ \/ /\ stdout' = Append(stdout, Out("answers", a.bytes))
                      /\ UNCHANGED failure
                   \/ /\ stdout' = Append(stdout, Out("short", a.bytes))
                      /\ failure' = "stdout"
                /\ Exited("0")
                /\ UNCHANGED <<file, writes>>
           ELSE /\ writes' = writes + 1
                /\ file' = WriteFile(file, a.bytes).f
                /\ IF WriteFile(file, a.bytes).err THEN Failed("write", "1")
                   ELSE Exited("0") /\ UNCHANGED failure
                /\ UNCHANGED stdout
    /\ UNCHANGED <<doc, run, formIdx, answers, loaded, refs, built, presented,
                   sessions, confirmed>>

NotBuilt == [made |-> FALSE, shown |-> NoRef, tmpl |-> "-", seen |-> EmptyMap]

\* the state of a process entering main (lines 1000-1004), over document d
\* and the file f at d.Output
Fresh(d, f) ==
    /\ doc = d
    /\ file = f
    /\ pc = "start"
    /\ formIdx = 0
    /\ answers = EmptyMap
    /\ loaded = EmptyMap
    /\ refs = [p \in PosSet(d) |-> NoRef]
    /\ built = [p \in PosSet(d) |-> NotBuilt]
    /\ presented = {}
    /\ sessions = <<>>
    /\ stdout = <<>>
    /\ writes = 0
    /\ confirmed = "unasked"
    /\ failure = ""
    /\ run = IF Exists(f) THEN "other" ELSE "first"
    /\ exit = "running"

\* option n of widget w is presented checked: its flag, or its value is (in)
\* the bound value
Checked(w, n) ==
    \/ w.options[n].Selected
    \/ w.value.t = "str" /\ w.value.s = w.options[n].Value
    \/ w.value.t = "strs" /\ \E x \in 1..Len(w.value.q) : w.value.q[x] = w.options[n].Value

\* the values widget w can hold when the operator submitted it as presented
AcceptValues(w) ==
    LET on == {n \in 1..Len(w.options) : Checked(w, n)}
    IN  CASE w.kind = "select" ->
                IF Len(w.options) = 0 THEN {w.value}
                ELSE IF on = {} THEN {Str(w.options[1].Value)}
                ELSE {Str(w.options[n].Value) : n \in on}
          [] w.kind = "multiselect" ->
                {Strs(SubSeqAt([n \in 1..Len(w.options) |-> w.options[n].Value],
                               on, 1))}
          [] OTHER -> {w.value}

\* every field of the document was built, shown and submitted as presented
AcceptedAll ==
    \A p \in PosSet(doc) :
        /\ built[p].made
        /\ p \in presented
        /\ refs[p].value \in AcceptValues(built[p].shown)

\* main wrote the answer file and returned
Wrote == pc = "exited" /\ exit = "0" /\ failure = "" /\ writes = 1

\* the operator starts the program again on the same schema; the file at
\* doc.Output is what the earlier runs left
Rerun ==
    /\ pc = "exited"
    /\ pc' = "start"
    /\ formIdx' = 0
    /\ answers' = EmptyMap
    /\ loaded' = EmptyMap
    /\ refs' = [p \in PosSet(doc) |-> NoRef]
    /\ built' = [p \in PosSet(doc) |-> NotBuilt]
    /\ presented' = {}
    /\ sessions' = <<>>
    /\ stdout' = <<>>
    /\ writes' = 0
    /\ confirmed' = "unasked"
    /\ failure' = ""
    /\ run' = IF run = "first" /\ Wrote /\ AcceptedAll THEN "resumed"
              ELSE IF Exists(file) THEN "other"
              ELSE "first"
    /\ exit' = "running"
    /\ UNCHANGED <<doc, file>>

Next ==
    \/ Start
    \/ Intro
    \/ BuildForm
    \/ Session
    \/ Summarize
    \/ ConfirmPrompt
    \/ Serialize
    \/ Rerun

----------------------------------------------------------------------------
(* Documents.                                                              *)

MaxFields == 2

NoOpts == <<>>
OptsAB == <<Opt("", "a", FALSE), Opt("B", "b", FALSE)>>
OptsAb == <<Opt("", "a", FALSE), Opt("B", "b", TRUE)>>
OptsAc == <<Opt("", "a", FALSE), Opt("C", "c", TRUE)>>

\* fields of the template and resume paths: note, input, text, and a
\* confirm that puts a non-string under a key
TemplatePalette ==
    { Fld("n",  "note",        FALSE, Nil, NoOpts),
      Fld("k1", "input",       TRUE,  Nil, NoOpts),
      Fld("k1", "input",       FALSE, Str("d"), NoOpts),
      Fld("k1", "input",       FALSE, Str(TemplateRef("k2")), NoOpts),
      Fld("k2", "input",       FALSE, Str(TemplateRef("k1")), NoOpts),
      Fld("k2", "text",        TRUE,  Str(TemplateRef("k1")), NoOpts),
      Fld("k2", "confirm",     FALSE, Bool(TRUE), NoOpts) }

\* fields of the option paths: select, multiselect, and a field of a type
\* the program does not know
SelectPalette ==
    { Fld("n",  "note",        FALSE, Nil, NoOpts),
      Fld("k1", "select",      TRUE,  Str("a"), OptsAB),
      Fld("k1", "multiselect", TRUE,  Nil, OptsAB),
      Fld("k2", "multiselect", FALSE, SeqV(<<"a">>), OptsAb),
      Fld("k2", "password",    FALSE, Nil, NoOpts) }

\* the fields resumed from a hand-edited file: those of the option paths and
\* a select with a flagged option and no default
ResumePalette ==
    SelectPalette \cup { Fld("k2", "select", FALSE, Nil, OptsAc) }

\* where field n+1 goes after field n: the same group, a new group of the
\* same form, a new form
Cuts == {"field", "group", "form"}

RECURSIVE Arrange(_, _, _)
Arrange(fs, c, n) ==
    IF n = 0 THEN <<>>
    ELSE IF n = 1 THEN << [Groups |-> << [Fields |-> <<fs[1]>>] >>] >>
    ELSE LET F  == Arrange(fs, c, n - 1)
             lf == F[Len(F)]
             lg == lf.Groups[Len(lf.Groups)]
         IN  CASE c[n - 1] = "field" ->
                    [F EXCEPT ![Len(F)].Groups[Len(lf.Groups)].Fields =
                                  Append(lg.Fields, fs[n])]
               [] c[n - 1] = "group" ->
                    [F EXCEPT ![Len(F)].Groups =
                                  Append(lf.Groups, [Fields |-> <<fs[n]>>])]
               [] OTHER ->
                    Append(F, [Groups |-> << [Fields |-> <<fs[n]>>] >>])

\* the forms of up to max fields of the palette, in every arrangement
FormsOf(palette, max) ==
    UNION { { Arrange(fs, c, n) : fs \in [1..n -> palette],
                                  c \in [1..(n - 1) -> Cuts] } : n \in 0..max }

Survey(path, output, summary, confirm, forms) ==
    [path |-> path, Output |-> output, Summary |-> summary, Confirm |-> confirm,
     Forms |-> forms]

\* the fields of each palette in documents of up to MaxFields fields; output
\* to a file, no summary, no confirmation
FieldDocs ==
    { Survey("survey.yaml", "answers.json", FALSE, "", X) :
        X \in FormsOf(TemplatePalette, MaxFields)
              \cup FormsOf(SelectPalette, MaxFields) }

\* the settings of output, summary and confirmation, over one-field documents
SettingDocs ==
    { Survey(path, out, sum, conf, X) :
        path \in {"survey.yaml", "survey.json"},
        out  \in {"", "-", "answers.yaml", "answers.txt"},
        sum  \in BOOLEAN,
        conf \in {"", "Sure?"},
        X    \in FormsOf({ Fld("n",  "note",  FALSE, Nil, NoOpts),
                           Fld("k1", "input", FALSE, Nil, NoOpts) }, 1) }

Docs == FieldDocs \cup SettingDocs

\* one-field documents over an answer file that was edited by hand or written
\* under an older schema: a sequence under one key
EditedDocs ==
    { Survey("survey.yaml", "answers.yaml", FALSE, "", X) :
        X \in FormsOf(ResumePalette, 1) }

EditedFiles ==
    { Bytes("yaml", k :> NodeList(q)) :
        k \in Keys, q \in {<<"z">>, <<"b", "a">>, <<"B">>} }

\* the shapes of a group: no field, a note alone, one input
GroupShapes ==
    { <<>>,
      << Fld("n",  "note",  FALSE, Nil, NoOpts) >>,
      << Fld("k1", "input", FALSE, Str("d"), NoOpts) >> }

\* forms of no group, one group and two groups
FormShapes ==
    { <<>> } \cup { << [Fields |-> g] >> : g \in GroupShapes }
             \cup { << [Fields |-> g], [Fields |-> h] >> : g, h \in GroupShapes }

\* documents of one and of two forms with groups of every shape
StructureDocs ==
    { Survey("survey.yaml", "answers.json", FALSE, "", X) :
        X \in { << [Groups |-> f] >> : f \in FormShapes }
              \cup { << [Groups |-> f], [Groups |-> g] >> : f, g \in FormShapes } }

\* schema paths that load, that have an unsupported extension, that name no
\* file and that hold a broken document, over the kinds of output path
LoadDocs ==
    { Survey(path, out, FALSE, "",
             << [Groups |-> << [Fields |->
                    << Fld("k1", "input", FALSE, Str("d"), NoOpts) >>] >>] >>) :
        path \in {"survey.yaml", "survey.txt", "missing.yaml", "broken.json"},
        out  \in {"answers.json", "answers.txt", "-"} }

\* what may be at the output path before the first run of the model: nothing,
\* nothing and no directory to create it in, bytes no codec parses, an answer
\* document
FoundFiles == {NoFile, NoDir, Garbage, Bytes("json", "k1" :> NodeStr("p"))}

\* a key held by two fields of different types, before the field a default
\* refers to: the three fields in this order, in every grouping
ShadowFields ==
    << Fld("k2", "confirm", FALSE, Bool(TRUE), NoOpts),
       Fld("k2", "input",   FALSE, Str(TemplateRef("k1")), NoOpts),
       Fld("k1", "input",   FALSE, Str("d"), NoOpts) >>

ShadowDocs ==
    { Survey("survey.yaml", "answers.yaml", FALSE, "", Arrange(ShadowFields, c, 3)) :
        c \in [1..2 -> Cuts] }

\* a note under the key of the input before it, in every grouping
NoteKeyFields ==
    << Fld("k1", "input", FALSE, Str("d"), NoOpts),
       Fld("k1", "note",  FALSE, Nil, NoOpts) >>

NoteKeyDocs ==
    { Survey("survey.yaml", "answers.json", FALSE, "", Arrange(NoteKeyFields, c, 2)) :
        c \in [1..1 -> Cuts] }

\* an input with a plain default and an input or text whose default does
\* not parse, in both orders and in every grouping
MalformedFields ==
    { <<Fld("k1", "input", FALSE, Str("d"), NoOpts),
        Fld("k2", t, FALSE, Str(Malformed), NoOpts)>> : t \in {"input", "text"} }
    \cup
    { <<Fld("k2", t, FALSE, Str(Malformed), NoOpts),
        Fld("k1", "input", FALSE, Str("d"), NoOpts)>> : t \in {"input", "text"} }

MalformedDocs ==
    { Survey("survey.yaml", o, FALSE, "", Arrange(fs, c, 2)) :
        o \in {"-", "answers.yaml"}, fs \in MalformedFields, c \in [1..1 -> Cuts] }

Init ==
    \/ \E d \in Docs : Fresh(d, NoFile)
    \/ \E d \in MalformedDocs : Fresh(d, NoFile)
    \/ \E d \in NoteKeyDocs : Fresh(d, NoFile)
    \/ \E d \in ShadowDocs : Fresh(d, NoFile)
    \/ \E d \in EditedDocs, f \in EditedFiles : Fresh(d, f)
    \/ \E d \in StructureDocs : Fresh(d, NoFile)
    \/ \E d \in LoadDocs, f \in FoundFiles : Fresh(d, f)

Spec == Init /\ [][Next]_vars

----------------------------------------------------------------------------
(* Properties.                                                             *)

F(p) == FieldAt(doc, p)

\* Run returned nil: every form has been worked through
RunReturnedNil == formIdx > Len(doc.Forms)

AnswersOnStdout == \E n \in 1..Len(stdout) : stdout[n].kind = "answers"

\* main wrote the answers and returned
Serialized == pc = "exited" /\ exit = "0" /\ confirmed # "no"

\* the bytes Answers() returned to main in a serialized run
Payload == IF ToStdout(doc) THEN stdout[Len(stdout)].bytes ELSE file

ValueKeys == {F(p).Key : p \in {x \in PosSet(doc) : IsValueField(F(x))}}

\* an input or text field whose default goes through the template engine
IsTemplated(f) ==
    f.Type \in {"input", "text"} /\ f.Default.t = "str" /\ f.Default.s # ""

\* the group of p comes before the group of q
GroupBefore(p, q) == p[1] < q[1] \/ (p[1] = q[1] /\ p[2] < q[2])

\* C1: after a completed run the serialized answer map has exactly the keys
\* of the non-note fields.
C1_AnswerKeysAreValueKeys ==
    Serialized => DOMAIN Payload.data = ValueKeys

\* k is the key of a field after p and of no field at or before p
LaterOnly(k, p) ==
    /\ \E q \in PosSet(doc) : Before(p, q) /\ F(q).Key = k
    /\ \A q \in PosSet(doc) : F(q).Key = k => Before(p, q)

\* C2: in every run, first or resumed, a default template that references the
\* key of a later field expands to the empty string.
C2_LaterKeyExpandsEmpty ==
    \A p \in PosSet(doc) :
        (/\ built[p].made
         /\ IsTemplated(F(p))
         /\ \E k \in Keys : F(p).Default.s = TemplateRef(k) /\ LaterOnly(k, p))
        => built[p].tmpl = ""

\* the last non-note field with key k among the forms before form i
LastBefore(k, i) ==
    CHOOSE l \in PosSet(doc) :
        /\ l[1] < i /\ IsValueField(F(l)) /\ F(l).Key = k
        /\ \A x \in PosSet(doc) :
              (x[1] < i /\ IsValueField(F(x)) /\ F(x).Key = k)
              => (x = l \/ Before(x, l))

C4_PersistedNeverMutated ==
    (pc # "start" /\ ~ToStdout(doc)) => answers = loaded

Unsupported(f) == f.Type \notin SupportedTypes

\* C5: with a field of unsupported type in the document, no field of its
\* group or of a later group is ever presented, Run does not return nil, the
\* process does not exit with status 0 and nothing is written.
C5_UnsupportedTypeAborts ==
    \A p \in PosSet(doc) :
        Unsupported(F(p)) =>
            /\ \A q \in PosSet(doc) : ~GroupBefore(q, p) => q \notin presented
            /\ ~RunReturnedNil
            /\ pc \notin {"summary", "confirm", "answers"}
            /\ (pc = "exited" => exit # "0")
            /\ writes = 0
            /\ ~AnswersOnStdout

\* Run returned the error at the second form, after the first was presented
C5_Witness ==
    \E p \in PosSet(doc) :
        /\ Unsupported(F(p))
        /\ p[1] = 2
        /\ formIdx = 2
        /\ presented # {}
        /\ pc = "exited"
        /\ exit = "1"

\* C6: when the operator declines the confirmation the process ends with no
\* write to the output file and no answers on standard output; the file at
\* the output path still reads as it did when the run loaded it.
C6_DeclineWritesNothing ==
    confirmed = "no" =>
        /\ pc = "exited"
        /\ exit = "0"
        /\ writes = 0
        /\ ~AnswersOnStdout
        /\ (~ToStdout(doc) => readAnswers(doc.Output, file).o = loaded)

\* declined over an existing file, after entering something else
C6_Witness ==
    /\ confirmed = "no"
    /\ file.kind = "doc"
    /\ answers # loaded

\* C7: once Run has returned nil, every required input, text and select field
\* holds a non-empty string and every required multiselect a non-empty list.
C7_RequiredNonEmpty ==
    RunReturnedNil =>
        \A p \in PosSet(doc) :
            F(p).Required =>
                /\ F(p).Type \in {"input", "text", "select"}
                      => (refs[p].value.t = "str" /\ refs[p].value.s # "")
                /\ F(p).Type = "multiselect"
                      => (refs[p].value.t = "strs" /\ Len(refs[p].value.q) > 0)

\* a required input that was shown empty ends with a typed value
C7_Witness ==
    /\ RunReturnedNil
    /\ \E p \in PosSet(doc) :
          /\ F(p).Required
          /\ F(p).Type = "input"
          /\ built[p].shown.value.s = ""
          /\ refs[p].value.s # ""

\* C8: the default shown for an input or text field is the persisted string
\* under its key if the answer file holds one, else the templated default.
C8_PersistedStringElseTemplate ==
    \A p \in PosSet(doc) :
        (built[p].made /\ F(p).Type \in {"input", "text"}) =>
            LET templated == IF built[p].tmpl = "-" THEN "" ELSE built[p].tmpl
                pers      == MapGet(loaded, F(p).Key)
            IN  built[p].shown.value
                  = Str(IF pers.t = "str" THEN pers.s ELSE templated)

\* option n of widget w is presented pre-selected
Preselected(w, n) ==
    w.options[n].Selected \/ w.value = Str(w.options[n].Value)

\* C9: a select field whose persisted value equals the value of one of its
\* options is presented with that option pre-selected.
C9_SelectResumesPersisted ==
    \A p \in PosSet(doc) :
        (built[p].made /\ F(p).Type = "select") =>
            \A n \in 1..Len(F(p).Options) :
                MapGet(loaded, F(p).Key) = Str(F(p).Options[n].Value)
                => Preselected(built[p].shown, n)

\* the default the schema alone gives a select or multiselect field
SchemaValue(f) ==
    IF f.Type = "select"
    THEN Str(IF f.Default.t = "str" THEN f.Default.s ELSE "")
    ELSE Strs(IF f.Default.t = "seq" THEN f.Default.q ELSE <<>>)

EmptyValue(f) == IF f.Type = "select" THEN Str("") ELSE Strs(<<>>)

SchemaFlags(f) == [n \in 1..Len(f.Options) |-> f.Options[n].Selected]

ShownFlags(w) == [n \in 1..Len(w.options) |-> w.options[n].Selected]

\* the strings of an entry of the answer map
EntryValues(a) ==
    CASE a.t = "str" -> {a.s}
      [] a.t = "seq" -> Range(a.q)
      [] OTHER       -> {}

NoMatch(a, f) ==
    EntryValues(a) \cap {f.Options[n].Value : n \in 1..Len(f.Options)} = {}

\* C10 as stated: a select or multiselect field whose persisted entry matches
\* none of its option values, or is absent, is presented with the schema's
\* default value and preselected flags unchanged.
C10_NoMatchKeepsDefault ==
    \A p \in PosSet(doc) :
        (/\ built[p].made
         /\ F(p).Type \in {"select", "multiselect"}
         /\ NoMatch(MapGet(loaded, F(p).Key), F(p)))
        => /\ built[p].shown.value = SchemaValue(F(p))
           /\ ShownFlags(built[p].shown) = SchemaFlags(F(p))

\* C10 amended: for a select or multiselect field whose entry in the answer
\* map matches none of its option values, or is absent, the preselected flags
\* are presented unchanged; the schema's default value is presented unchanged
\* too, unless the entry is a sequence read from the answer file and the field
\* has an option: then the value is cleared.
C10_NoMatchKeepsFlags ==
    \A p \in PosSet(doc) :
        (/\ built[p].made
         /\ F(p).Type \in {"select", "multiselect"}
         /\ NoMatch(MapGet(built[p].seen, F(p).Key), F(p)))
        => /\ ShownFlags(built[p].shown) = SchemaFlags(F(p))
           /\ built[p].shown.value
                = IF MapGet(built[p].seen, F(p).Key).t = "seq"
                     /\ Len(F(p).Options) > 0
                  THEN EmptyValue(F(p))
                  ELSE SchemaValue(F(p))

\* a persisted sequence matching no option cleared a non-empty schema default
C10_Witness ==
    \E p \in PosSet(doc) :
        /\ built[p].made
        /\ F(p).Type \in {"select", "multiselect"}
        /\ MapGet(built[p].seen, F(p).Key).t = "seq"
        /\ MapGet(loaded, F(p).Key) = MapGet(built[p].seen, F(p).Key)
        /\ NoMatch(MapGet(built[p].seen, F(p).Key), F(p))
        /\ SchemaValue(F(p)) # EmptyValue(F(p))
        /\ built[p].shown.value = EmptyValue(F(p))

\* group g of form i has a field that is not a note
HasValueField(d, i, g) ==
    \E x \in 1..Len(d.Forms[i].Groups[g].Fields) :
        IsValueField(d.Forms[i].Groups[g].Fields[x])

\* C11: every group handed to a prompt session has a non-note field, so a
\* group that is empty or holds only notes is skipped, and a form all of
\* whose groups are such opens no session.
C11_NoValueGroupSkipped ==
    \A n \in 1..Len(sessions) :
        /\ \A x \in 1..Len(sessions[n].groups) :
              HasValueField(doc, sessions[n].form, sessions[n].groups[x])
        /\ \E g \in 1..Len(doc.Forms[sessions[n].form].Groups) :
              HasValueField(doc, sessions[n].form, g)

\* C12: the output file changes only in the step after Answers() returned
\* the payload without error, by one os.WriteFile call, the only one of the
\* run, and a successful write leaves exactly the payload; when Answers()
\* fails, the step writes nothing, leaves the file as it was and ends the
\* process with a non-zero status.
C12_WriteOnlyAfterAnswers ==
    [][ /\ (file' # file \/ writes' > writes) =>
              /\ pc = "answers"
              /\ ~Answers(doc, refs).err
              /\ ~Answers(doc, refs).panic
              /\ writes = 0
              /\ writes' = 1
              /\ (exit' = "0" => file' = Answers(doc, refs).bytes)
        /\ (pc = "answers" /\ Answers(doc, refs).err) =>
              /\ writes' = writes
              /\ file' = file
              /\ stdout' = stdout
              /\ pc' = "exited"
              /\ exit' = "1"
      ]_vars

\* a run that collected its answers ended in Answers() on an output path
\* that is neither yaml nor json, with nothing written
C12_Witness ==
    /\ pc = "exited"
    /\ exit = "1"
    /\ RunReturnedNil
    /\ presented # {}
    /\ doc.Confirm = ""
    /\ ~ToStdout(doc)
    /\ Answers(doc, refs).err
    /\ writes = 0
    /\ file = NoFile

\* C13: the process ends with status zero exactly when the run met no
\* failure (it completed, or the operator declined the confirmation); every
\* failure ends with a non-zero status.
C13_ZeroExitIffNoFailure ==
    pc = "exited" => (exit = "0" <=> failure = "")

\* C14: once the schema is loaded, NewSurvey never fails and leaves an empty
\* answer map when no file exists at the output path or when the output is
\* empty or "-" (then whatever is at that path is not read).
C14_FirstRunLoadsEmpty ==
    [][ (/\ pc = "start"
         /\ ReadSchema(doc.path) = ""
         /\ (~Exists(file) \/ doc.Output \in {"", "-"}))
        => /\ pc' = "intro"
           /\ answers' = EmptyMap
           /\ loaded' = EmptyMap
           /\ failure' = ""
           /\ exit' = "running"
      ]_vars

\* NewSurvey returned an empty map for an output path that names no file,
\* here one of an extension readAnswers would reject
C14_Witness ==
    /\ pc = "intro"
    /\ file.kind = "none"
    /\ doc.Output = "answers.txt"
    /\ answers = EmptyMap
    /\ loaded = EmptyMap
    /\ exit = "running"

\* C15: when a first run that accepted every default wrote the answer file,
\* a second run over that file which again accepts every default writes the
\* same bytes.
C15_ResumeIdempotent ==
    [][ (/\ pc = "answers"
         /\ run = "resumed"
         /\ AcceptedAll
         /\ pc' = "exited"
         /\ exit' = "0"
         /\ failure' = "")
        => file' = file
      ]_vars

\* the map Answers() built in the run that has just ended
Collected == AnswerMap(EmptyMap, doc, DocPositions(doc), refs, 1)

\* every value of map m is a string, a boolean or a set of strings
Plain(m) == \A k \in DOMAIN m : m[k].t \in {"str", "bool", "strs"}

C17_UnsupportedSchemaExtension ==
    (doc.path \notin YamlPaths \cup JsonPaths \cup MissingPaths) =>
        /\ pc \in {"start", "exited"}
        /\ pc = "exited" => (exit = "1" /\ failure = "extension")
        /\ loaded = EmptyMap
        /\ answers = EmptyMap
        /\ formIdx = 0
        /\ sessions = <<>>
        /\ presented = {}
        /\ stdout = <<>>
        /\ writes = 0

\* the load of survey.txt failed next to an answer file that holds an entry
C17_Witness ==
    /\ doc.path = "survey.txt"
    /\ doc.Output = "answers.json"
    /\ file.kind = "doc"
    /\ DOMAIN file.data # {}
    /\ pc = "exited"
    /\ failure = "extension"
    /\ loaded = EmptyMap

\* the fields that hold key k
Holders(k) == {p \in PosSet(doc) : F(p).Key = k}

\* the field with key k that comes last in document order
LastHolder(k) ==
    CHOOSE l \in Holders(k) : \A x \in Holders(k) : x = l \/ Before(x, l)

\* C18: for a key that two or more fields share, the running answer map
\* (once Run returned nil) and the serialized output (once main delivered it)
\* hold under that key the value of the field that comes last in document
\* order.
C18_LastWriteWins ==
    \A k \in {F(p).Key : p \in PosSet(doc)} :
        Cardinality(Holders(k)) >= 2 =>
            /\ RunReturnedNil =>
                  MapGet(answers, k) = refs[LastHolder(k)].value
            /\ (Serialized /\ failure = "") =>
                  /\ k \in DOMAIN Payload.data
                  /\ Payload.data[k] = EncodeValue(refs[LastHolder(k)].value)

\* C19: with an output of "" or "-" no step of a run creates or changes a
\* file or calls os.WriteFile, and the step that completes the run puts the
\* bytes Answers() returned on standard output.
C19_StdoutOutputTouchesNoFile ==
    [][ doc.Output \in {"", "-"} =>
          /\ file' = file
          /\ writes' = 0
          /\ (pc = "answers" /\ pc' = "exited" /\ exit' = "0" /\ failure' = "")
                => stdout' = Append(stdout, Out("answers", Answers(doc, refs).bytes))
      ]_vars

\* a run with output "-" completed with the answers on standard output, next
\* to a file at that path that it left alone
C19_Witness ==
    /\ doc.Output = "-"
    /\ file.kind = "doc"
    /\ pc = "exited"
    /\ exit = "0"
    /\ failure = ""
    /\ confirmed # "no"
    /\ writes = 0
    /\ AnswersOnStdout
    /\ Payload = Marshal(fileType(doc.path), Collected)

\* C20: a multiselect field whose key holds a sequence in the answer file is
\* presented with an option pre-selected exactly when the option's flag is
\* set in the schema or its value is an element of that sequence.
C20_MultiSelectResume ==
    \A p \in PosSet(doc) :
        (/\ built[p].made
         /\ F(p).Type = "multiselect"
         /\ MapGet(loaded, F(p).Key).t = "seq")
        => \A n \in 1..Len(F(p).Options) :
              Checked(built[p].shown, n)
              <=> \/ F(p).Options[n].Selected
                  \/ F(p).Options[n].Value \in Range(MapGet(loaded, F(p).Key).q)

\* the options of the widget shown for p that the resume step marked: they
\* are flagged in the widget and not in the schema
ResumeMarked(p) ==
    {n \in 1..Len(F(p).Options) :
        built[p].shown.options[n].Selected /\ ~F(p).Options[n].Selected}

\* C21: whatever the answer file holds under the key of a select field, the
\* resume step marks at most one of the field's options pre-selected.
C21_SelectResumeMarksOne ==
    \A p \in PosSet(doc) :
        (built[p].made /\ F(p).Type = "select")
        => Cardinality(ResumeMarked(p)) <= 1

\* the input and text fields of the document whose default does not parse
MalformedAt ==
    {p \in PosSet(doc) : /\ F(p).Type \in {"input", "text"}
                         /\ F(p).Default = Str(Malformed)}

\* C22: a default of an input or text field that does not parse as a template
\* ends the run while the field's form is being built: the session of that
\* form (and of every later one) never opens, the run never gets past its
\* forms, it ends with a non-zero exit once that form is reached, and neither
\* the output file nor standard output receives the answers.
C22_MalformedTemplateFatal ==
    \A p \in MalformedAt :
        /\ formIdx <= p[1]
        /\ pc \in {"start", "intro", "build", "session", "exited"}
        /\ pc = "session" => formIdx < p[1]
        /\ \A n \in 1..Len(sessions) : sessions[n].form < p[1]
        /\ \A q \in presented : q[1] < p[1]
        /\ (pc = "exited" /\ formIdx = p[1]) =>
              (failure \in {"template", "type"} /\ exit # "0")
        /\ writes = 0
        /\ file = NoFile
        /\ ~AnswersOnStdout

\* the second form holds the malformed default: the first form's session was
\* held, then the build of the second form ended the run with a panic
C22_Witness ==
    /\ \E p \in MalformedAt : p[1] = 2
    /\ Len(sessions) = 1
    /\ pc = "exited"
    /\ failure = "template"
    /\ exit = "2"

\* the non-note fields of the forms before form j
EarlierValueFields(j) == {p \in PosSet(doc) : p[1] < j /\ IsValueField(F(p))}

\* a step goes through the forms in document order, one at a time; Rerun
\* starts over
FormsInOrder ==
    formIdx' \in {formIdx, formIdx + 1} \/ pc' = "start"

\* the step builds field q: every form before q's that has a group with
\* fields has had its session, every non-note field of those forms was
\* presented and has an entry in the answer map, and q's default is expanded
\* over that map
BuiltAfterEarlierForms(q) ==
    /\ formIdx = q[1]
    /\ \A i \in 1..(q[1] - 1) :
          Len(HuhGroups(doc, i)) > 0
          => \E n \in 1..Len(sessions) : sessions[n].form = i
    /\ \A p \in EarlierValueFields(q[1]) :
          p \in presented /\ F(p).Key \in DOMAIN answers
    /\ built'[q].seen = answers

\* C23 as stated: forms are processed in document order, the fields of a form
\* are built only after the sessions of the earlier forms have returned and
\* their values are stored, and the value entered for any non-note field of
\* an earlier form is what template expansion in a later form finds under the
\* field's key.
C23_EveryEarlierValueVisible ==
    [][ /\ FormsInOrder
        /\ \A q \in PosSet(doc) :
              (~built[q].made /\ built'[q].made)
              => /\ BuiltAfterEarlierForms(q)
                 /\ \A p \in EarlierValueFields(q[1]) :
                       MapGet(built'[q].seen, F(p).Key) = refs[p].value ]_vars

\* C23 amended: the same order, and the value entered for a non-note field of
\* an earlier form is what template expansion in a later form finds under the
\* field's key unless a later field of the forms before that one has the same
\* key.
C23_UnshadowedEarlierValueVisible ==
    [][ /\ FormsInOrder
        /\ \A q \in PosSet(doc) :
              (~built[q].made /\ built'[q].made)
              => /\ BuiltAfterEarlierForms(q)
                 /\ \A p \in EarlierValueFields(q[1]) :
                       (\A x \in EarlierValueFields(q[1]) :
                           F(x).Key = F(p).Key => (x = p \/ Before(x, p)))
                       => MapGet(built'[q].seen, F(p).Key) = refs[p].value ]_vars

\* the second form is in its session; its template default was expanded over
\* the value typed in the first form
C23_Witness ==
    \E p, q \in PosSet(doc) :
        /\ p[1] = 1 /\ q[1] = 2
        /\ pc = "session" /\ formIdx = 2
        /\ Len(sessions) = 1
        /\ IsValueField(F(p))
        /\ built[q].made
        /\ F(q).Default = Str(TemplateRef(F(p).Key))
        /\ refs[p].value = Str("x&y")
        /\ built[q].tmpl = HTMLEscape("x&y")

----------------------------------------------------------------------------
(* The flat-questions revision (src/main.go): one list of questions, one   *)
(* form.  doc is [path, Output, Questions], refs maps the index of a        *)
(* question to its answer accessor (q.answer), unset while it is nil.       *)

FlatSurvey(path, output, qs) == [path |-> path, Output |-> output, Questions |-> qs]

\* NewInputField of src/main.go: the default is plain text, the persisted
\* string replaces it
FlatNewInputField(q, ans) ==
    Widget("input", Str(ResumeString(q, ans, q.Default.s)), <<>>)

\* NewMultiSelectField of src/main.go: the bound value starts empty
FlatNewMultiSelectField(q, ans) ==
    LET st == OptionsLoop(q, ans, 1, [value |-> Strs(<<>>), options |-> <<>>],
                          Strs(<<>>))
    IN  Widget("multiselect", st.value, st.options)

\* the body of Run's loop for question q: the accessor it leaves in q.answer
FlatField(q, ans) ==
    IF q.Type = "input" THEN FlatNewInputField(q, ans)
    ELSE IF q.Type = "multiselect" THEN FlatNewMultiSelectField(q, ans)
    ELSE NoRef

\* readAnswers of src/main.go: the read comes first and fails on a missing
\* file
FlatReadAnswers(path, f) ==
    IF ~Exists(f) THEN [err |-> TRUE, o |-> EmptyMap]
    ELSE IF fileType(path) = "" THEN [err |-> TRUE, o |-> EmptyMap]
    ELSE IF f.kind = "garbage" THEN [err |-> TRUE, o |-> EmptyMap]
    ELSE [err |-> FALSE, o |-> Unmarshal(f)]

\* the values one session can leave in the widgets of questions 1..n
RECURSIVE FlatOutcomes(_, _, _)
FlatOutcomes(d, r, n) ==
    IF n = 0 THEN {r}
    ELSE {[o EXCEPT ![n].value = v] :
            o \in FlatOutcomes(d, r, n - 1),
            v \in IF r[n].set THEN Choices(d.Questions[n], r[n]) ELSE {r[n].value}}

\* the loop of Answers in src/main.go: o[q.Key] = q.answer.Value()
RECURSIVE FlatAnswerMap(_, _, _, _)
FlatAnswerMap(o, d, r, n) ==
    IF n > Len(d.Questions) THEN o
    ELSE FlatAnswerMap(MapSet(o, d.Questions[n].Key, GetValue(r[n])), d, r, n + 1)

\* Survey.Answers() of src/main.go: [panic, err, bytes]; calling Value() on a
\* nil accessor panics
FlatAnswers(d, r) ==
    LET path == IF ToStdout(d) THEN d.path ELSE d.Output
    IN  IF \E n \in 1..Len(d.Questions) : ~r[n].set
        THEN [panic |-> TRUE, err |-> FALSE, bytes |-> NoFile]
        ELSE IF fileType(path) = ""
        THEN [panic |-> FALSE, err |-> TRUE, bytes |-> NoFile]
        ELSE [panic |-> FALSE, err |-> FALSE,
              bytes |-> Marshal(fileType(path), FlatAnswerMap(EmptyMap, d, r, 1))]

\* NewSurvey of src/main.go
FlatNewSurvey ==
    /\ pc = "start"
    /\ IF ReadSchema(doc.path) # ""
       THEN /\ Failed(ReadSchema(doc.path), "1")
            /\ UNCHANGED <<answers, loaded>>
       ELSE IF ToStdout(doc)
       THEN /\ pc' = "build"
            /\ UNCHANGED <<answers, loaded, failure, exit>>
       ELSE LET a == FlatReadAnswers(doc.Output, file)
            IN  IF a.err
                THEN /\ Failed("answers", "1")
                     /\ UNCHANGED <<answers, loaded>>
                ELSE /\ answers' = a.o
                     /\ loaded' = a.o
                     /\ pc' = "build"
                     /\ UNCHANGED <<failure, exit>>
    /\ UNCHANGED <<doc, run, file, formIdx, refs, built, presented, sessions, stdout,
                   writes, confirmed>>

\* Run of src/main.go up to huh.NewForm: the fields of the one form
FlatBuild ==
    /\ pc = "build"
    /\ refs' = [n \in DOMAIN refs |-> FlatField(doc.Questions[n], answers)]
    /\ pc' = "session"
    /\ UNCHANGED <<doc, run, file, formIdx, answers, loaded, built, presented,
                   sessions, stdout, writes, confirmed, failure, exit>>

\* form.Run() of src/main.go: the operator aborts, or submits the form
FlatSession ==
    /\ pc = "session"
    /\ presented' = {n \in DOMAIN refs : refs[n].set}
    /\ \/ /\ Failed("session", "1")
          /\ UNCHANGED <<formIdx, refs>>
       \/ /\ refs' \in FlatOutcomes(doc, refs, Len(doc.Questions))
          /\ pc' = "answers"
          /\ formIdx' = 1
          /\ UNCHANGED <<failure, exit>>
    /\ UNCHANGED <<doc, run, file, answers, loaded, built, sessions, stdout, writes,
                   confirmed>>

\* main of src/main.go after Run: Answers, then standard output or the file
FlatSerialize ==
    /\ pc = "answers"
    /\ LET a == FlatAnswers(doc, refs)
       IN  IF a.panic \/ a.err
           THEN /\ IF a.panic THEN Failed("answers-panic", "2")
                   ELSE Failed("serialize", "1")
                /\ UNCHANGED <<file, stdout, writes>>
           ELSE IF ToStdout(doc)
           THEN /\ \/ /\ stdout' = Append(stdout, Out("answers", a.bytes))
                      /\ UNCHANGED failure
                   \/ /\ stdout' = Append(stdout, Out("short", a.bytes))
                      /\ failure' = "stdout"
                /\ Exited("0")
                /\ UNCHANGED <<file, writes>>
           ELSE /\ writes' = writes + 1
                /\ file' = WriteFile(file, a.bytes).f
                /\ IF WriteFile(file, a.bytes).err THEN Failed("write", "1")
                   ELSE Exited("0") /\ UNCHANGED failure
                /\ UNCHANGED stdout
    /\ UNCHANGED <<doc, run, formIdx, answers, loaded, refs, built, presented,
                   sessions, confirmed>>

\* one question of every type the five tests of Run name, and one of a type
\* they do not name
FlatPalette ==
    { Fld("k1", "input",       FALSE, Str("d"), NoOpts),
      Fld("k2", "input",       TRUE,  Str(""),  NoOpts),
      Fld("k2", "text",        FALSE, Str(""),  NoOpts),
      Fld("k1", "select",      FALSE, Str(""),  OptsAB),
      Fld("k1", "multiselect", TRUE,  Str(""),  OptsAB),
      Fld("k2", "confirm",     FALSE, Str(""),  NoOpts),
      Fld("k2", "password",    FALSE, Str(""),  NoOpts) }

FlatDocs ==
    { FlatSurvey(path, o, qs) :
        path \in {"survey.yaml", "survey.txt"},
        o \in {"-", "answers.yaml", "answers.txt"},
        qs \in UNION {[1..n -> FlatPalette] : n \in 0..MaxFields} }

\* what the flat revision finds at the output path
FlatFiles ==
    {NoFile, Bytes("yaml", "k1" :> NodeStr("p")), Bytes("yaml", "k1" :> NodeList(<<"b">>))}

FlatFresh(d, f) ==
    /\ doc = d
    /\ file = f
    /\ pc = "start"
    /\ formIdx = 0
    /\ answers = EmptyMap
    /\ loaded = EmptyMap
    /\ refs = [n \in 1..Len(d.Questions) |-> NoRef]
    /\ built = <<>>
    /\ presented = {}
    /\ sessions = <<>>
    /\ stdout = <<>>
    /\ writes = 0
    /\ confirmed = "unasked"
    /\ failure = ""
    /\ run = IF Exists(f) THEN "other" ELSE "first"
    /\ exit = "running"

FlatInit == \E d \in FlatDocs, f \in FlatFiles : FlatFresh(d, f)

FlatNext ==
    \/ FlatNewSurvey
    \/ FlatBuild
    \/ FlatSession
    \/ FlatSerialize

SpecFlat == FlatInit /\ [][FlatNext]_vars

\* C24: in the flat revision, once Run has returned without error every
\* question has its answer accessor set, whatever its type, and Answers()
\* does not end in the panic of a call through an unset accessor.
C24_FlatAccessorsSet ==
    /\ pc = "answers" => \A n \in DOMAIN refs : refs[n].set
    /\ failure # "answers-panic"

\* the schema loads, and the output is a path with an extension that names no
\* format at which there is no file
UnsupportedOutputNoFile ==
    /\ ReadSchema(doc.path) = ""
    /\ ~ToStdout(doc)
    /\ fileType(doc.Output) = ""
    /\ ~Exists(file)

\* every form with a non-empty group had its session and every field was
\* presented
AllFormsPresented ==
    /\ PosSet(doc) \subseteq presented
    /\ \A i \in 1..Len(doc.Forms) :
          Len(HuhGroups(doc, i)) > 0
          => \E n \in 1..Len(sessions) : sessions[n].form = i

\* C25: with an output path of an unsupported extension and no file there,
\* loading succeeds with an empty map; the extension error arises only in
\* Answers(), after every form was presented and the confirmation (when
\* configured) was accepted; a run the operator carries through ends with that
\* error; and nothing is written to the path or to standard output.
C25_OutputExtensionSurfacesLate ==
    UnsupportedOutputNoFile =>
        /\ failure # "answers"
        /\ pc # "start" => loaded = EmptyMap
        /\ failure = "serialize" =>
              /\ RunReturnedNil
              /\ AllFormsPresented
              /\ ConfirmConfigured(doc) => confirmed = "yes"
              /\ exit = "1"
        /\ (pc = "exited" /\ RunReturnedNil /\ confirmed # "no"
                          /\ failure # "session")
             => failure = "serialize"
        /\ writes = 0
        /\ ~AnswersOnStdout

\* the operator went through the form and accepted the confirmation; the run
\* then ended with the extension error of Answers()
C25_Witness ==
    /\ UnsupportedOutputNoFile
    /\ pc = "exited"
    /\ failure = "serialize"
    /\ Len(sessions) = 1
    /\ presented # {}
    /\ confirmed = "yes"
    /\ exit = "1"

\* C26: the answers a run delivers are in the format that fileType gives for
\* the schema file's path when the output is empty or "-", and in the format
\* it gives for the output path otherwise.
C26_FormatFromPath ==
    Serialized =>
        Payload.fmt = IF doc.Output \in {"", "-"}
                      THEN fileType(doc.path)
                      ELSE fileType(doc.Output)

\* a json schema delivered its answers as json on standard output
C26_Witness ==
    /\ Serialized
    /\ doc.Output = ""
    /\ doc.path = "survey.json"
    /\ AnswersOnStdout
    /\ Payload.fmt = "json"

\* C27: once Run has returned without error every field of every group of
\* every form, notes included, has its widget reference set, and neither
\* Answers() nor the summary ends in a call through an unset reference.
C27_AllRefsSet ==
    /\ RunReturnedNil => \A p \in PosSet(doc) : refs[p].set
    /\ failure # "answers-panic"

\* a run over a document with a note and a form without any field delivered
\* its answers
C27_Witness ==
    /\ Serialized
    /\ \E p \in PosSet(doc) : F(p).Type = "note" /\ refs[p].set
    /\ \E i \in 1..Len(doc.Forms) : Len(HuhGroups(doc, i)) = 0

====
